---- MODULE Spec2Model ----
(***************************************************************************)
(* Model of the hydrogen-market cleaning and price-analysis scripts:       *)
(*   scripts/data_cleaning.py   (filters, imputation, targeted correction, *)
(*                               the main workflow)                        *)
(*   scripts/Price_Analysis.py  (range splitting, breakeven range loop)    *)
(*                                                                         *)
(* Text cells are tuples of one-character strings so that substring search,*)
(* case folding, splitting and numeric parsing are computed, not assumed.  *)
(* A missing cell (pandas NaN, an empty CSV field) is the empty tuple.     *)
(***************************************************************************)
EXTENDS Integers, Sequences, FiniteSets, TLC

VARIABLES
    pc,        \* position of the script: which call has run and how it ended
    src,       \* the DataFrame as read by pd.read_csv at the top of the function
    ret,       \* what the call produced: [ok, err, tbl]
    outfile,   \* content of the file written by df.to_csv(..., index=False)
    drawn,     \* matplotlib primitives issued by the breakeven range loop
    step,      \* main workflow: number of the next call of the __main__ block
    fails,     \* main workflow: the calls that raise when they are run
    produced   \* main workflow: output files written so far

vars == <<pc, src, ret, outfile, drawn, step, fails, produced>>

(***************************************************************************)
(* Bounds                                                                  *)
(***************************************************************************)
MaxRows == 3
MaxCostRows == 5
MaxPriceRows == 2

(***************************************************************************)
(* Characters and text                                                     *)
(***************************************************************************)
NaN == <<>>

Lowers == <<"a","b","c","d","e","f","g","h","i","j","k","l","m",
            "n","o","p","q","r","s","t","u","v","w","x","y","z">>
Uppers == <<"A","B","C","D","E","F","G","H","I","J","K","L","M",
            "N","O","P","Q","R","S","T","U","V","W","X","Y","Z">>
Digits == <<"0","1","2","3","4","5","6","7","8","9">>

IsIn(ch, alphabet) == \E i \in 1..Len(alphabet) : alphabet[i] = ch
IndexIn(ch, alphabet) == CHOOSE i \in 1..Len(alphabet) : alphabet[i] = ch

IsDigit(ch) == IsIn(ch, Digits)
IsLetter(ch) == IsIn(ch, Lowers) \/ IsIn(ch, Uppers)
LowerCh(ch) == IF IsIn(ch, Uppers) THEN Lowers[IndexIn(ch, Uppers)] ELSE ch
UpperCh(ch) == IF IsIn(ch, Lowers) THEN Uppers[IndexIn(ch, Lowers)] ELSE ch

\* str.lower()
Lower(s) == [i \in 1..Len(s) |-> LowerCh(s[i])]

\* `sub in s`
Contains(s, sub) ==
    \E k \in 0..(Len(s) - Len(sub)) :
        \A i \in 1..Len(sub) : s[k + i] = sub[i]

\* Series.str.contains(pat, case=False, na=False) on one cell
StrContainsCaseSensitive(cell, pat) ==
    IF cell = NaN THEN FALSE ELSE Contains(cell, pat)

StrContainsNoCase(cell, pat) ==
    IF cell = NaN THEN FALSE
    ELSE LET s == Lower(cell)
             p == Lower(pat)
         IN Contains(s, p)

\* text that pd.read_csv parses as a number: digits with an optional point
IsNumericText(s) ==
    /\ Len(s) > 0
    /\ \A i \in 1..Len(s) : IsDigit(s[i]) \/ s[i] = "."
    /\ Cardinality({i \in 1..Len(s) : s[i] = "."}) <= 1
    /\ \E i \in 1..Len(s) : IsDigit(s[i])

(***************************************************************************)
(* Tables: [cols |-> <<name, ...>>, rows |-> <<[idx, cells], ...>>]        *)
(* idx is the pandas index label given by read_csv (0-based position).     *)
(***************************************************************************)
EmptyTable == [cols |-> <<>>, rows |-> <<>>]
Returned(t) == [ok |-> TRUE, err |-> "", tbl |-> t]
Raised(e) == [ok |-> FALSE, err |-> e, tbl |-> EmptyTable]
NoResult == [ok |-> FALSE, err |-> "not run", tbl |-> EmptyTable]
NoFile == [exists |-> FALSE, cols |-> <<>>, rows |-> <<>>]

ColSet(t) == {t.cols[i] : i \in 1..Len(t.cols)}

\* dtype inferred by read_csv: a column is object (text) when it has no rows
\* or some cell is neither missing nor numeric; otherwise it is float/int
\* and Series.str raises AttributeError
StrAccessorOk(t, c) ==
    \/ Len(t.rows) = 0
    \/ \E i \in 1..Len(t.rows) :
          /\ t.rows[i].cells[c] # NaN
          /\ ~IsNumericText(t.rows[i].cells[c])

\* df[~df[c].str.contains(pat, case=False, na=False)]
ExcludeContaining(t, c, pat) ==
    [t EXCEPT !.rows =
        SelectSeq(t.rows, LAMBDA r : ~StrContainsNoCase(r.cells[c], pat))]

\* df.dropna(how='all')
DropNaRowsAny(t) ==
    [t EXCEPT !.rows =
        SelectSeq(t.rows, LAMBDA r :
            \A k \in 1..Len(t.cols) : r.cells[t.cols[k]] # NaN)]

DropNaRowsAll(t) ==
    [t EXCEPT !.rows =
        SelectSeq(t.rows, LAMBDA r :
            \E k \in 1..Len(t.cols) : r.cells[t.cols[k]] # NaN)]

\* df.drop(columns=names, errors='ignore'), also the column projection
KeepColumns(t, Keep(_)) ==
    LET cs == SelectSeq(t.cols, Keep)
        S  == {cs[i] : i \in 1..Len(cs)}
    IN [cols |-> cs,
        rows |-> [i \in 1..Len(t.rows) |->
                    [idx |-> t.rows[i].idx,
                     cells |-> [c \in S |-> t.rows[i].cells[c]]]]]

DropColumns(t, names) == KeepColumns(t, LAMBDA c : c \notin names)

\* df.dropna(subset=[c])
Reverse(s) == [i \in 1..Len(s) |-> s[Len(s) + 1 - i]]

DropNaSubsetReversed(t, c) ==
    [t EXCEPT !.rows =
        Reverse(SelectSeq(t.rows, LAMBDA r : r.cells[c] # NaN))]

DropNaSubset(t, c) ==
    [t EXCEPT !.rows = SelectSeq(t.rows, LAMBDA r : r.cells[c] # NaN)]

\* df.dropna(axis=1, how='all')
DropNaColsAll(t) ==
    KeepColumns(t, LAMBDA c :
        \E i \in 1..Len(t.rows) : t.rows[i].cells[c] # NaN)

\* df.to_csv(path, index=False): header and cells, the index is not written
ToCsv(t) ==
    [exists |-> TRUE,
     cols |-> t.cols,
     rows |-> [i \in 1..Len(t.rows) |-> t.rows[i].cells]]

(***************************************************************************)
(* clean_iea_projects                                                      *)
(***************************************************************************)
confidential == <<"c","o","n","f","i","d","e","n","t","i","a","l">>

columns_to_drop ==
    {"Capacity_t CO2 captured/y", "References", "Latitude", "Longitude",
     "Unnamed: 35", "Unnamed: 36", "Unnamed: 37", "Unnamed: 38", "Unnamed: 39"}

FilterConfidential(t) == ExcludeContaining(t, "Project name", confidential)

clean_iea_projects(t) ==
    LET d1 == FilterConfidential(t)
        d2 == DropNaRowsAll(d1)
        d3 == DropColumns(d2, {"Refs"})
        d4 == DropColumns(d3, columns_to_drop)
    IN DropNaSubset(d4, "Date online")

(***************************************************************************)
(* clean_europe_datasets                                                   *)
(***************************************************************************)
AllEmptyDrop(t) == DropNaRowsAll(DropNaColsAll(t))

clean_europe_datasets(t) == AllEmptyDrop(t)

(***************************************************************************)
(* Inputs of the two cleaning functions                                    *)
(***************************************************************************)
ConfidentialSiteA ==
    <<"C","o","n","f","i","d","e","n","t","i","a","l"," ","S","i","t","e"," ","A">>
CONFIDENTIAL_UPPER == <<"C","O","N","F","I","D","E","N","T","I","A","L">>
PlantB == <<"P","l","a","n","t"," ","B">>
Year2020 == <<"2","0","2","0">>
SomeText == <<"r","e","f">>

ProjectNames == {NaN, ConfidentialSiteA, CONFIDENTIAL_UPPER, PlantB}

IeaHeaders ==
    { <<"Refs", "Project name", "Date online">>,
      <<"Date online", "Project name">> }

CellsOf(c) ==
    IF c = "Project name" THEN ProjectNames
    ELSE IF c = "Date online" THEN {NaN, Year2020}
    ELSE {NaN, SomeText}

RowCells(h) ==
    { [c \in {h[i] : i \in 1..Len(h)} |->
          IF c = "Project name" THEN name
          ELSE IF c = "Date online" THEN date ELSE other]
      : name \in CellsOf("Project name"),
        date \in CellsOf("Date online"),
        other \in CellsOf("other") }

\* read_csv numbers the rows 0, 1, 2, ...
MakeTable(h, cellRows) ==
    [cols |-> h,
     rows |-> [i \in 1..Len(cellRows) |-> [idx |-> i - 1, cells |-> cellRows[i]]]]

InitClean ==
    /\ pc = "loaded"
    /\ \E h \in IeaHeaders : \E n \in 0..MaxRows : \E rs \in [1..n -> RowCells(h)] :
          src = MakeTable(h, rs)
    /\ ret = NoResult
    /\ outfile = NoFile
    /\ drawn = <<>>
    /\ step = 0
    /\ fails = {}
    /\ produced = {}

CleanIeaReturns ==
    /\ pc = "loaded"
    /\ StrAccessorOk(src, "Project name")
    /\ ret' = Returned(clean_iea_projects(src))
    /\ outfile' = ToCsv(ret'.tbl)
    /\ pc' = "iea_returned"
    /\ UNCHANGED <<src, drawn, step, fails, produced>>

CleanIeaRaises ==
    /\ pc = "loaded"
    /\ ~StrAccessorOk(src, "Project name")
    /\ ret' = Raised("AttributeError")
    /\ pc' = "iea_raised"
    /\ UNCHANGED <<src, outfile, drawn, step, fails, produced>>

CleanEurope ==
    /\ pc = "loaded"
    /\ ret' = Returned(clean_europe_datasets(src))
    /\ outfile' = ToCsv(ret'.tbl)
    /\ pc' = "europe_returned"
    /\ UNCHANGED <<src, drawn, step, fails, produced>>

NextClean == CleanIeaReturns \/ CleanIeaRaises \/ CleanEurope

SpecClean == InitClean /\ [][NextClean]_vars


(***************************************************************************)
(* Properties of the cleaning functions (checked under SpecClean)          *)
(***************************************************************************)
\* The spellings of the input pool that contain "confidential" in some casing
ConfidentialSpellings == {ConfidentialSiteA, CONFIDENTIAL_UPPER}

IdxSet(t) == {t.rows[i].idx : i \in 1..Len(t.rows)}

RowIsConfidential(r) == r.cells["Project name"] \in ConfidentialSpellings
RowIsAllEmpty(t, r) == \A k \in 1..Len(t.cols) : r.cells[t.cols[k]] = NaN
RowLacksDate(r) == r.cells["Date online"] = NaN
RowExcluded(t, r) == RowIsConfidential(r) \/ RowIsAllEmpty(t, r) \/ RowLacksDate(r)

ExpectedIeaIdx(t) ==
    {t.rows[i].idx : i \in {j \in 1..Len(t.rows) : ~RowExcluded(t, t.rows[j])}}

\* When the call returns, its rows are exactly the rows matching no criterion
\* and no column is named Refs.
IeaReturnedRowsExact ==
    pc = "iea_returned" =>
        /\ IdxSet(ret.tbl) = ExpectedIeaIdx(src)
        /\ Len(ret.tbl.rows) = Cardinality(ExpectedIeaIdx(src))
        /\ "Refs" \notin ColSet(ret.tbl)

\* C3: for every input table clean_iea_projects outputs exactly the input rows
\* that match none of the three exclusion criteria (confidential project name,
\* every cell missing, 'Date online' missing), so that three non-overlapping
\* matches leave original_row_count - 3 rows, and the output has no column Refs.
C3_IeaOutputsExactlyNonExcluded ==
    pc \in {"iea_returned", "iea_raised"} =>
        /\ ret.ok
        /\ IdxSet(ret.tbl) = ExpectedIeaIdx(src)
        /\ Len(ret.tbl.rows) = Cardinality(ExpectedIeaIdx(src))
        /\ "Refs" \notin ColSet(ret.tbl)

\* C5: the confidentiality filter drops a row if and only if its 'Project name'
\* is non-missing and contains 'confidential' in any letter casing; a row whose
\* 'Project name' is missing is never dropped by this filter.
C5_ConfidentialFilterDropsIffContains ==
    pc = "iea_returned" =>
        LET kept == IdxSet(FilterConfidential(src))
        IN /\ \A i \in 1..Len(src.rows) :
                (src.rows[i].idx \notin kept) <=> RowIsConfidential(src.rows[i])
           /\ \A i \in 1..Len(src.rows) :
                src.rows[i].cells["Project name"] = NaN => src.rows[i].idx \in kept
           /\ IdxSet(ret.tbl) \subseteq kept
           /\ \A i \in 1..Len(src.rows) :
                (src.rows[i].cells["Project name"] = NaN /\ ~RowLacksDate(src.rows[i]))
                    => src.rows[i].idx \in IdxSet(ret.tbl)

C5_Witness ==
    /\ pc = "iea_returned"
    /\ \E i, j, k \in 1..Len(src.rows) :
          /\ src.rows[i].cells["Project name"] = ConfidentialSiteA
          /\ src.rows[j].cells["Project name"] = CONFIDENTIAL_UPPER
          /\ src.rows[k].cells["Project name"] = NaN
          /\ src.rows[k].idx \in IdxSet(ret.tbl)
          /\ src.rows[i].idx \notin IdxSet(ret.tbl)
          /\ src.rows[j].idx \notin IdxSet(ret.tbl)

\* position of a column name in a header
ColPos(t, c) == CHOOSE k \in 1..Len(t.cols) : t.cols[k] = c
SrcRow(t, idx) == t.rows[CHOOSE i \in 1..Len(t.rows) : t.rows[i].idx = idx]

OrderPreserved(before, after) ==
    /\ ColSet(after) \subseteq ColSet(before)
    /\ \A a, b \in 1..Len(after.cols) :
          a < b => ColPos(before, after.cols[a]) < ColPos(before, after.cols[b])
    /\ IdxSet(after) \subseteq IdxSet(before)
    /\ \A a, b \in 1..Len(after.rows) :
          a < b => after.rows[a].idx < after.rows[b].idx
    /\ \A a \in 1..Len(after.rows) :
          \A c \in ColSet(after) :
              after.rows[a].cells[c] = SrcRow(before, after.rows[a].idx).cells[c]

\* C6: the rows and columns that survive the filter stages of clean_iea_projects
\* and clean_europe_datasets appear in the output in the same relative order as
\* in the input.
C6_FiltersPreserveOrder ==
    pc \in {"iea_returned", "europe_returned"} => OrderPreserved(src, ret.tbl)

C6_Witness ==
    /\ pc = "iea_returned"
    /\ Len(src.rows) = MaxRows
    /\ Len(ret.tbl.rows) >= 2
    /\ Len(ret.tbl.rows) < Len(src.rows)
    /\ src.rows[1].idx \in IdxSet(ret.tbl)
    /\ src.rows[Len(src.rows)].idx \in IdxSet(ret.tbl)
    /\ Len(ret.tbl.cols) = 2
    /\ Len(src.cols) = 3

\* C7: applying the all-empty-drop filter of clean_europe_datasets to its own
\* output yields a table equal to that output.
C7_AllEmptyDropIdempotent ==
    pc = "europe_returned" => AllEmptyDrop(ret.tbl) = ret.tbl

C7_Witness ==
    /\ pc = "europe_returned"
    /\ Len(ret.tbl.cols) < Len(src.cols)
    /\ Len(ret.tbl.rows) < Len(src.rows)
    /\ Len(ret.tbl.rows) > 0

\* the degenerate inputs: every cell missing, so every column and row is dropped
C7_WitnessAllEmpty ==
    /\ pc = "europe_returned"
    /\ Len(src.rows) = MaxRows
    /\ ret.tbl = EmptyTable

(***************************************************************************)
(* impute_cost_values                                                      *)
(***************************************************************************)
\* the column 'Value (EUR/kg)' (the euro sign of the source is spelled out)
ValueCol == "Value (EUR/kg)"

Column(t, c) == [i \in 1..Len(t.rows) |-> t.rows[i].cells[c]]

\* Series.fillna(method='ffill'): scan forward carrying the last valid value
\* (pandas releases that accept the method keyword, as the script requires)
RECURSIVE FFillUpTo(_, _)
FFillUpTo(col, n) ==
    IF n = 0 THEN <<>>
    ELSE LET done == FFillUpTo(col, n - 1)
         IN Append(done,
                   IF col[n] # NaN THEN col[n]
                   ELSE IF n = 1 THEN NaN ELSE done[n - 1])

FFill(col) == FFillUpTo(col, Len(col))

\* Series.fillna(method='bfill'): scan backward carrying the next valid value
RECURSIVE BFillFrom(_, _)
BFillFrom(col, n) ==
    IF n > Len(col) THEN <<>>
    ELSE LET done == BFillFrom(col, n + 1)
         IN <<IF col[n] # NaN THEN col[n]
              ELSE IF n = Len(col) THEN NaN ELSE done[1]>> \o done

BFill(col) == BFillFrom(col, 1)

\* df[c] = values
AssignColumn(t, c, values) ==
    [t EXCEPT !.rows =
        [i \in 1..Len(t.rows) |->
            [t.rows[i] EXCEPT !.cells = [@ EXCEPT ![c] = values[i]]]]]

ImputeFfillOnly(t) == AssignColumn(t, ValueCol, FFill(Column(t, ValueCol)))

ImputeBfillFirst(t) == AssignColumn(t, ValueCol, FFill(BFill(Column(t, ValueCol))))

impute_cost_values(t) ==
    AssignColumn(t, ValueCol, BFill(FFill(Column(t, ValueCol))))

Germany == <<"G","e","r","m","a","n","y">>
Cost1 == <<"3",".","5">>
Cost2 == <<"6",".","1">>

CostHeader == <<"Country", ValueCol>>

CostRows ==
    { [c \in {"Country", ValueCol} |-> IF c = "Country" THEN country ELSE value]
      : country \in {NaN, Germany}, value \in {NaN, Cost1, Cost2} }

InitImpute ==
    /\ pc = "loaded"
    /\ \E n \in 0..MaxCostRows : \E rs \in [1..n -> CostRows] :
          src = MakeTable(CostHeader, rs)
    /\ ret = NoResult
    /\ outfile = NoFile
    /\ drawn = <<>>
    /\ step = 0
    /\ fails = {}
    /\ produced = {}

ImputeCostValues ==
    /\ pc = "loaded"
    /\ ret' = Returned(impute_cost_values(src))
    /\ outfile' = ToCsv(ret'.tbl)
    /\ pc' = "impute_returned"
    /\ UNCHANGED <<src, drawn, step, fails, produced>>

NextImpute == ImputeCostValues

SpecImpute == InitImpute /\ [][NextImpute]_vars

(***************************************************************************)
(* Properties of the imputation (checked under SpecImpute)                 *)
(***************************************************************************)
Valid(t) == {i \in 1..Len(t.rows) : t.rows[i].cells[ValueCol] # NaN}
Missing(t) == {i \in 1..Len(t.rows) : t.rows[i].cells[ValueCol] = NaN}

SetMax(S) == CHOOSE x \in S : \A y \in S : y <= x
SetMin(S) == CHOOSE x \in S : \A y \in S : x <= y

\* C1: when the column has at least one non-missing cell, the table returned
\* and the file written by impute_cost_values have no missing cell in it.
C1_ImputationTotal ==
    (pc = "impute_returned" /\ Valid(src) # {}) =>
        /\ Missing(ret.tbl) = {}
        /\ Len(ret.tbl.rows) = Len(src.rows)
        /\ outfile.exists
        /\ Len(outfile.rows) = Len(src.rows)
        /\ \A i \in 1..Len(outfile.rows) : outfile.rows[i][ValueCol] # NaN

\* a leading, a middle and a trailing gap in one column
C1_Witness ==
    /\ pc = "impute_returned"
    /\ Len(src.rows) = 5
    /\ Missing(src) = {1, 3, 5}
    /\ Missing(ret.tbl) = {}

\* C9: every non-missing cell keeps its value; a missing cell with a non-missing
\* cell before it receives the nearest preceding non-missing value; a missing
\* cell with none before it receives the nearest following non-missing value.
C9_FillValues ==
    pc = "impute_returned" =>
        /\ Len(ret.tbl.rows) = Len(src.rows)
        /\ \A i \in 1..Len(src.rows) :
            LET before == {j \in Valid(src) : j < i}
                after  == {j \in Valid(src) : j > i}
                got    == ret.tbl.rows[i].cells[ValueCol]
            IN /\ i \in Valid(src) => got = src.rows[i].cells[ValueCol]
               /\ (i \in Missing(src) /\ before # {}) =>
                      got = src.rows[SetMax(before)].cells[ValueCol]
               /\ (i \in Missing(src) /\ before = {} /\ after # {}) =>
                      got = src.rows[SetMin(after)].cells[ValueCol]
               /\ ret.tbl.rows[i].cells["Country"] = src.rows[i].cells["Country"]
               /\ ret.tbl.rows[i].idx = src.rows[i].idx

\* two disjoint gaps with different neighbours, one of them leading
C9_Witness ==
    /\ pc = "impute_returned"
    /\ Len(src.rows) = 5
    /\ Missing(src) = {1, 3, 5}
    /\ src.rows[2].cells[ValueCol] = Cost1
    /\ src.rows[4].cells[ValueCol] = Cost2
    /\ Column(ret.tbl, ValueCol) = <<Cost1, Cost1, Cost1, Cost2, Cost2>>

(***************************************************************************)
(* update_refinery_region                                                  *)
(***************************************************************************)
\* int(text) for a cell that read_csv parsed as an integer
RECURSIVE ParseDigits(_, _)
ParseDigits(s, n) ==
    IF n = 0 THEN 0
    ELSE 10 * ParseDigits(s, n - 1) + (IndexIn(s[n], Digits) - 1)

IsIntegerText(s) == Len(s) > 0 /\ \A i \in 1..Len(s) : IsDigit(s[i])

\* df[c] == number, on one cell of a numeric column
NumberEquals(cell, number) ==
    IsIntegerText(cell) /\ ParseDigits(cell, Len(cell)) = number

Electrolysis == <<"E","l","e","c","t","r","o","l","y","s","i","s">>
Operational == <<"O","p","e","r","a","t","i","o","n","a","l">>
Global == <<"G","l","o","b","a","l">>

\* (df['year'] == 2030) & (df['technology'] == "Electrolysis") & (df['status'] == "Operational")
RegionMaskAnyOf(r) ==
    \/ NumberEquals(r.cells["year"], 2030)
    \/ r.cells["technology"] = Electrolysis
    \/ r.cells["status"] = Operational

RegionMask(r) ==
    /\ NumberEquals(r.cells["year"], 2030)
    /\ r.cells["technology"] = Electrolysis
    /\ r.cells["status"] = Operational

\* df.loc[mask, 'region'] = "Global"
update_refinery_region(t) ==
    [t EXCEPT !.rows =
        [i \in 1..Len(t.rows) |->
            IF RegionMask(t.rows[i])
            THEN [t.rows[i] EXCEPT !.cells = [@ EXCEPT !["region"] = Global]]
            ELSE t.rows[i]]]

Year2030 == <<"2","0","3","0">>
Year2025 == <<"2","0","2","5">>
electrolysis_lower == <<"e","l","e","c","t","r","o","l","y","s","i","s">>
Planned == <<"P","l","a","n","n","e","d">>
Europe == <<"E","u","r","o","p","e">>

RefineryHeader == <<"year", "region", "technology", "status">>

RefineryRows ==
    { [c \in {"year", "region", "technology", "status"} |->
          IF c = "year" THEN y
          ELSE IF c = "region" THEN g
          ELSE IF c = "technology" THEN t ELSE s]
      : y \in {Year2030, Year2025},
        g \in {Europe, Global},
        t \in {Electrolysis, electrolysis_lower},
        s \in {Operational, Planned} }

InitRegion ==
    /\ pc = "loaded"
    /\ \E n \in 0..MaxRows : \E rs \in [1..n -> RefineryRows] :
          src = MakeTable(RefineryHeader, rs)
    /\ ret = NoResult
    /\ outfile = NoFile
    /\ drawn = <<>>
    /\ step = 0
    /\ fails = {}
    /\ produced = {}

UpdateRefineryRegion ==
    /\ pc = "loaded"
    /\ ret' = Returned(update_refinery_region(src))
    /\ outfile' = ToCsv(ret'.tbl)
    /\ pc' = "region_returned"
    /\ UNCHANGED <<src, drawn, step, fails, produced>>

NextRegion == UpdateRefineryRegion

SpecRegion == InitRegion /\ [][NextRegion]_vars

(***************************************************************************)
(* Properties of the targeted correction (checked under SpecRegion)        *)
(***************************************************************************)
Targeted(r) ==
    /\ r.cells["year"] = Year2030
    /\ r.cells["technology"] = Electrolysis
    /\ r.cells["status"] = Operational

\* C4: update_refinery_region changes only 'region', only in rows with
\* year = 2030, technology = "Electrolysis" and status = "Operational", to
\* "Global"; every other cell is as in the input, no row is added, removed or
\* reordered, and a table without a matching row is returned unchanged.
C4_CorrectionSelective ==
    pc = "region_returned" =>
        /\ ret.ok
        /\ ret.tbl.cols = src.cols
        /\ Len(ret.tbl.rows) = Len(src.rows)
        /\ \A i \in 1..Len(src.rows) :
              /\ ret.tbl.rows[i].idx = src.rows[i].idx
              /\ \A c \in ColSet(src) \ {"region"} :
                    ret.tbl.rows[i].cells[c] = src.rows[i].cells[c]
              /\ ret.tbl.rows[i].cells["region"] =
                    IF Targeted(src.rows[i]) THEN Global
                    ELSE src.rows[i].cells["region"]
        /\ ((\A i \in 1..Len(src.rows) : ~Targeted(src.rows[i])) => ret.tbl = src)
        /\ outfile = ToCsv(ret.tbl)

\* a matching row relabelled next to rows that differ from it in one field each
C4_Witness ==
    /\ pc = "region_returned"
    /\ \E i, j, k \in 1..Len(src.rows) :
          /\ Targeted(src.rows[i])
          /\ src.rows[i].cells["region"] = Europe
          /\ ret.tbl.rows[i].cells["region"] = Global
          /\ src.rows[j].cells["year"] = Year2025
          /\ src.rows[j].cells["technology"] = Electrolysis
          /\ src.rows[j].cells["status"] = Operational
          /\ ret.tbl.rows[j].cells["region"] = Europe
          /\ src.rows[k].cells["year"] = Year2030
          /\ src.rows[k].cells["technology"] = electrolysis_lower
          /\ ret.tbl.rows[k].cells["region"] = Europe

\* no row matches: the call returns the input
C4_WitnessNoMatch ==
    /\ pc = "region_returned"
    /\ Len(src.rows) = MaxRows
    /\ \A i \in 1..Len(src.rows) : ~Targeted(src.rows[i])
    /\ ret.tbl = src

(***************************************************************************)
(* The __main__ workflow of data_cleaning.py                               *)
(***************************************************************************)
Workflow ==
    << [fn |-> "clean_iea_projects",
        input |-> "HydrogenProjects_IEA_Ori.csv",
        output |-> "HydrogenProjects_Final.csv"],
       [fn |-> "clean_europe_datasets",
        input |-> "Europe_Hydrogen_Demand.csv",
        output |-> "Europe_Hydrogen_Demand_Cleaned.csv"],
       [fn |-> "clean_europe_datasets",
        input |-> "Hydrogen_Production_Costs_Europe.csv",
        output |-> "Hydrogen_Production_Costs_Europe_Cleaned.csv"],
       [fn |-> "clean_europe_datasets",
        input |-> "BreakevenPrice_Hydrogen_Europe.csv",
        output |-> "BreakevenPrice_Hydrogen_Europe_Cleaned.csv"],
       [fn |-> "impute_cost_values",
        input |-> "Hydrogen_Production_Costs_Europe_Cleaned.csv",
        output |-> "Hydrogen_Production_Costs_Europe_Imputed.csv"],
       [fn |-> "update_north2_date",
        input |-> "HydrogenProjects_Supply.csv",
        output |-> "HydrogenProjects_Supply_Updated.csv"],
       [fn |-> "update_refinery_region",
        input |-> "Hydrogen_Oil_Refine_Demand.csv",
        output |-> "Hydrogen_Oil_Refine_Demand_Updated.csv"] >>

Calls == 1..Len(Workflow)
Outputs == {Workflow[k].output : k \in Calls}

\* a call raises when its own reading, transforming or writing fails, or when
\* it reads a file an earlier call should have written and did not
CallRaises(k) ==
    \/ k \in fails
    \/ Workflow[k].input \in Outputs /\ Workflow[k].input \notin produced

InitMain ==
    /\ pc = "main"
    /\ step = 1
    /\ fails \in SUBSET Calls
    /\ produced = {}
    /\ src = EmptyTable
    /\ ret = NoResult
    /\ outfile = NoFile
    /\ drawn = <<>>

\* the call returns: its output file is written and the next statement runs
MainCallReturns ==
    /\ pc = "main"
    /\ step \in Calls
    /\ ~CallRaises(step)
    /\ produced' = produced \cup {Workflow[step].output}
    /\ step' = step + 1
    /\ UNCHANGED <<pc, src, ret, outfile, drawn, fails>>

\* what one try/except per call would do
MainCallIsSkipped ==
    /\ pc = "main"
    /\ step \in Calls
    /\ CallRaises(step)
    /\ step' = step + 1
    /\ UNCHANGED <<pc, src, ret, outfile, drawn, fails, produced>>

\* the call raises: nothing catches the exception and the script ends
MainCallRaises ==
    /\ pc = "main"
    /\ step \in Calls
    /\ CallRaises(step)
    /\ pc' = "main_crashed"
    /\ UNCHANGED <<step, src, ret, outfile, drawn, fails, produced>>

\* the final print
MainFinishes ==
    /\ pc = "main"
    /\ step = Len(Workflow) + 1
    /\ pc' = "main_done"
    /\ UNCHANGED <<step, src, ret, outfile, drawn, fails, produced>>

NextMain == MainCallReturns \/ MainCallRaises \/ MainFinishes

SpecMain == InitMain /\ [][NextMain]_vars

(***************************************************************************)
(* Properties of the workflow (checked under SpecMain)                     *)
(***************************************************************************)
Terminated == pc \in {"main_done", "main_crashed"}

\* C2 as stated: a failure while processing one dataset does not prevent the
\* remaining datasets from being processed; every dataset whose own steps do
\* not fail is cleaned and written by the time the workflow ends.
C2_FailureIsIsolated ==
    Terminated =>
        \A k \in Calls :
            (k \notin fails /\ (Workflow[k].input \in Outputs =>
                                 \E j \in Calls \ fails : Workflow[j].output = Workflow[k].input))
                => Workflow[k].output \in produced

\* C2 as the code behaves: the first call that raises ends the workflow; the
\* datasets before it are written, that dataset and all later ones are not;
\* all are written exactly when no call raises.
C2_FirstFailureEndsWorkflow ==
    Terminated =>
        /\ produced = {Workflow[k].output : k \in {j \in Calls : \A i \in 1..j : i \notin fails}}
        /\ (pc = "main_crashed") <=> (fails # {})
        /\ (pc = "main_done") <=> (produced = Outputs)

\* the second call fails, the later ones would not: only the first output exists
C2_Witness ==
    /\ pc = "main_crashed"
    /\ fails = {2}
    /\ produced = {Workflow[1].output}

(***************************************************************************)
(* Price_Analysis.py: load_and_clean_data                                  *)
(***************************************************************************)
\* floats: [nan, v] with v the value in hundredths
FloatNaN == [nan |-> TRUE, v |-> 0]
Float(hundredths) == [nan |-> FALSE, v |-> hundredths]

\* a != b on floats: NaN differs from everything, itself included
FloatNe(a, b) == a.nan \/ b.nan \/ a.v # b.v

\* str.replace(a, b) for single characters
ReplaceCh(s, a, b) == [i \in 1..Len(s) |-> IF s[i] = a THEN b ELSE s[i]]

\* str.split(sep): the pieces between the separators, empty pieces included
RECURSIVE SplitFrom(_, _, _, _)
SplitFrom(s, sep, i, piece) ==
    IF i > Len(s) THEN <<piece>>
    ELSE IF s[i] = sep THEN <<piece>> \o SplitFrom(s, sep, i + 1, <<>>)
    ELSE SplitFrom(s, sep, i + 1, Append(piece, s[i]))

Split(s, sep) == SplitFrom(s, sep, 1, <<>>)

\* str.strip()
RECURSIVE LStrip(_)
LStrip(s) == IF Len(s) > 0 /\ s[1] = " " THEN LStrip(Tail(s)) ELSE s
RECURSIVE RStrip(_)
RStrip(s) ==
    IF Len(s) > 0 /\ s[Len(s)] = " " THEN RStrip(SubSeq(s, 1, Len(s) - 1)) ELSE s
Strip(s) == RStrip(LStrip(s))

\* str.title(): a letter is upper-cased after a non-letter, lower-cased otherwise
Title(s) ==
    [i \in 1..Len(s) |->
        IF i = 1 \/ ~IsLetter(s[i - 1]) THEN UpperCh(s[i]) ELSE LowerCh(s[i])]

\* float(text): surrounding blanks are ignored; digits with at most one point
\* and at most two decimals (the alphabet of the inputs has no sign or exponent)
FloatOk(tok) == IsNumericText(Strip(tok))

PointPos(s) ==
    IF \E i \in 1..Len(s) : s[i] = "."
    THEN CHOOSE i \in 1..Len(s) : s[i] = "."
    ELSE Len(s) + 1

ParseFloat(tok) ==
    LET s == Strip(tok)
        p == PointPos(s)
        whole == SubSeq(s, 1, p - 1)
        frac == SubSeq(s, p + 1, Len(s))
        d1 == IF Len(frac) >= 1 THEN IndexIn(frac[1], Digits) - 1 ELSE 0
        d2 == IF Len(frac) >= 2 THEN IndexIn(frac[2], Digits) - 1 ELSE 0
    IN Float(100 * ParseDigits(whole, Len(whole)) + 10 * d1 + d2)

MinMaxCol == "Min-max (Eur/kg)"

\* .str.replace(",", ".").str.split("-", expand=True): one row of pieces per
\* cell; a missing cell gives no piece
Pieces(cell) == IF cell = NaN THEN <<>> ELSE Split(ReplaceCh(cell, ",", "."), "-")

\* number of columns of the expanded frame: the longest row of pieces
ExpandWidth(t) ==
    IF Len(t.rows) = 0 THEN 0
    ELSE SetMax({Len(Pieces(t.rows[i].cells[MinMaxCol])) : i \in 1..Len(t.rows)})

\* cell k of a row of the expanded frame: rows with fewer pieces are padded
\* with None
ExpandedCell(cell, k) ==
    IF k <= Len(Pieces(cell)) THEN <<Pieces(cell)[k]>> ELSE <<>>

\* Series.astype(float) on one cell of the expanded frame: None becomes NaN
AsFloatOk(x) == x = <<>> \/ FloatOk(x[1])
AsFloat(x) == IF x = <<>> THEN FloatNaN ELSE ParseFloat(x[1])

\* outcome of lines 23-38 on df_price: the exception raised, or "" for none
LoadError(t) ==
    IF ~StrAccessorOk(t, MinMaxCol) THEN "AttributeError"
    ELSE IF ExpandWidth(t) # 2 THEN "ValueError: Columns must be same length as key"
    ELSE IF \E i \in 1..Len(t.rows) : \E k \in 1..2 :
                ~AsFloatOk(ExpandedCell(t.rows[i].cells[MinMaxCol], k))
         THEN "ValueError: could not convert string to float"
    ELSE IF ~StrAccessorOk(t, "Category") THEN "AttributeError"
    ELSE ""

PriceRow(r) ==
    [idx |-> r.idx,
     Category |-> IF r.cells["Category"] = NaN THEN NaN
                  ELSE Title(Strip(r.cells["Category"])),
     MinMax |-> r.cells[MinMaxCol],
     Min |-> AsFloat(ExpandedCell(r.cells[MinMaxCol], 1)),
     Max |-> AsFloat(ExpandedCell(r.cells[MinMaxCol], 2))]

load_and_clean_data(t) ==
    [cols |-> t.cols \o <<"Min", "Max">>,
     rows |-> [i \in 1..Len(t.rows) |-> PriceRow(t.rows[i])]]

(***************************************************************************)
(* Price_Analysis.py: the breakeven range loop of plot_price_comparison    *)
(***************************************************************************)
PrimarySteelMaking ==
    <<"P","r","i","m","a","r","y"," ","S","t","e","e","l"," ","M","a","k","i","n","g">>

AxhLine(r) == [row |-> r.idx, kind |-> "axhline", lo |-> r.Min, hi |-> r.Min]
AxhSpan(r) == [row |-> r.idx, kind |-> "axhspan", lo |-> r.Min, hi |-> r.Max]

\* the body of the loop for one row
RangePrimitivesNoTest(r) ==
    IF Title(r.Category) = PrimarySteelMaking THEN <<AxhLine(r)>>
    ELSE <<AxhSpan(r)>>

RangePrimitives(r) ==
    IF Title(r.Category) = PrimarySteelMaking THEN <<AxhLine(r)>>
    ELSE IF FloatNe(r.Min, r.Max) THEN <<AxhSpan(r)>>
    ELSE <<>>

RECURSIVE RangeLoop(_, _)
RangeLoop(rows, n) ==
    IF n = 0 THEN <<>> ELSE RangeLoop(rows, n - 1) \o RangePrimitives(rows[n])

(***************************************************************************)
(* Inputs of the price analysis                                            *)
(***************************************************************************)
Range_250_310 == <<"2",",","5","0","-","3",",","1","0">>
Range_400_400 == <<"4",".","0","0","-","4",".","0","0">>
Range_Blanks == <<"2",".","5"," ","-"," ","3">>
Range_OneToken == <<"4",",","0","0">>
Range_ThreeTokens == <<"1","-","2","-","3">>
Range_NotNumeric == <<"x","-","3">>
Range_EmptyToken == <<"4","-">>

RangeCells ==
    {Range_250_310, Range_400_400, Range_Blanks, Range_OneToken,
     Range_ThreeTokens, Range_NotNumeric, Range_EmptyToken, NaN}

SteelUntidy ==
    <<" ","p","r","i","m","a","r","y"," ","S","T","E","E","L"," ","m","a","k","i","n","g"," ">>
OilRefining == <<"O","i","l"," ","R","e","f","i","n","i","n","g">>

PriceHeader == <<"Category", MinMaxCol>>

PriceRows ==
    { [c \in {"Category", MinMaxCol} |-> IF c = "Category" THEN cat ELSE rng]
      : cat \in {SteelUntidy, OilRefining}, rng \in RangeCells }

InitPrice ==
    /\ pc = "loaded"
    /\ \E n \in 1..MaxPriceRows : \E rs \in [1..n -> PriceRows] :
          src = MakeTable(PriceHeader, rs)
    /\ ret = NoResult
    /\ outfile = NoFile
    /\ drawn = <<>>
    /\ step = 0
    /\ fails = {}
    /\ produced = {}

LoadAndCleanReturns ==
    /\ pc = "loaded"
    /\ LoadError(src) = ""
    /\ ret' = Returned(load_and_clean_data(src))
    /\ pc' = "price_returned"
    /\ UNCHANGED <<src, outfile, drawn, step, fails, produced>>

LoadAndCleanRaises ==
    /\ pc = "loaded"
    /\ LoadError(src) # ""
    /\ ret' = Raised(LoadError(src))
    /\ pc' = "price_raised"
    /\ UNCHANGED <<src, outfile, drawn, step, fails, produced>>

PlotPriceComparison ==
    /\ pc = "price_returned"
    /\ drawn' = RangeLoop(ret.tbl.rows, Len(ret.tbl.rows))
    /\ pc' = "plotted"
    /\ UNCHANGED <<src, ret, outfile, step, fails, produced>>

NextPrice == LoadAndCleanReturns \/ LoadAndCleanRaises \/ PlotPriceComparison

SpecPrice == InitPrice /\ [][NextPrice]_vars

(***************************************************************************)
(* Properties of the price analysis (checked under SpecPrice)              *)
(***************************************************************************)
\* the cells of the input pool that split on '-' into exactly two numeric tokens
WellFormedRanges == {Range_250_310, Range_400_400, Range_Blanks}

Malformed(t) ==
    {i \in 1..Len(t.rows) : t.rows[i].cells[MinMaxCol] \notin WellFormedRanges}

\* C8: load_and_clean_data fails whenever any cell of 'Min-max (Eur/kg)' does
\* not split on '-' into exactly two numeric tokens, also when only some rows
\* are malformed; it never returns a table in which such a row carries a
\* missing Min or Max.
C8_MalformedRangeRejected ==
    pc \in {"price_returned", "price_raised"} =>
        /\ (Malformed(src) # {} => ~ret.ok)
        /\ ret.ok => \A i \in 1..Len(ret.tbl.rows) :
                        ~ret.tbl.rows[i].Min.nan /\ ~ret.tbl.rows[i].Max.nan

\* what the code does guarantee: a table is returned exactly when the longest
\* cell has two tokens and every token present is numeric
LoadReturnsIffTwoColumns ==
    pc \in {"price_returned", "price_raised"} =>
        (ret.ok <=>
            /\ \E i \in 1..Len(src.rows) : src.rows[i].cells[MinMaxCol] \in WellFormedRanges
            /\ \A i \in 1..Len(src.rows) :
                  src.rows[i].cells[MinMaxCol] \in WellFormedRanges \cup {Range_OneToken, NaN})

LinesFor(r) == {k \in 1..Len(drawn) : drawn[k].row = r.idx /\ drawn[k].kind = "axhline"}
SpansFor(r) == {k \in 1..Len(drawn) : drawn[k].row = r.idx /\ drawn[k].kind = "axhspan"}
MinEqualsMax(r) == ~r.Min.nan /\ ~r.Max.nan /\ r.Min.v = r.Max.v

\* C10 as stated: every row whose Min equals Max gets a single-value marker (a
\* horizontal line at that value) and never a filled range, whatever its
\* Category; a filled range is drawn only for rows with Min different from Max.
C10_EqualRangeDrawsMarker ==
    pc = "plotted" =>
        \A i \in 1..Len(ret.tbl.rows) :
            LET r == ret.tbl.rows[i]
            IN /\ MinEqualsMax(r) =>
                    /\ \E k \in LinesFor(r) : drawn[k].lo = r.Min
                    /\ SpansFor(r) = {}
               /\ SpansFor(r) # {} => ~MinEqualsMax(r)

\* C10 as the code behaves: a row whose Min equals Max never gets a filled
\* range; it gets the horizontal line at Min exactly when its Category is
\* "Primary Steel Making" (such a row gets the line whatever its Min and Max),
\* and nothing otherwise; a filled range is drawn exactly for the other
\* categories' rows whose Min differs from Max.
C10_MarkerOnlyForPrimarySteel ==
    pc = "plotted" =>
        \A i \in 1..Len(ret.tbl.rows) :
            LET r == ret.tbl.rows[i]
                steel == src.rows[i].cells["Category"] = SteelUntidy
            IN /\ MinEqualsMax(r) => SpansFor(r) = {}
               /\ steel => /\ Cardinality(LinesFor(r)) = 1
                           /\ \A k \in LinesFor(r) : drawn[k].lo = r.Min
                           /\ SpansFor(r) = {}
               /\ ~steel => /\ LinesFor(r) = {}
                            /\ (SpansFor(r) # {}) <=> ~MinEqualsMax(r)
                            /\ \A k \in SpansFor(r) :
                                  drawn[k].lo = r.Min /\ drawn[k].hi = r.Max

\* one steel row and one oil-refining row, both with Min = Max = 4.00: a line
\* for the first, nothing for the second
C10_Witness ==
    /\ pc = "plotted"
    /\ Len(ret.tbl.rows) = 2
    /\ src.rows[1].cells["Category"] = SteelUntidy
    /\ src.rows[2].cells["Category"] = OilRefining
    /\ MinEqualsMax(ret.tbl.rows[1])
    /\ MinEqualsMax(ret.tbl.rows[2])
    /\ ret.tbl.rows[1].Min = Float(400)
    /\ Len(drawn) = 1
    /\ drawn[1].kind = "axhline"

====
